---- MODULE Spec2Model ----
(***************************************************************************)
(* Model of stretch_mujoco/robocasa_gen.py: the option selector            *)
(* (choose_option), the kitchen generation wizard                          *)
(* (model_generation_wizard), custom_cleanups and add_stretch_to_kitchen.  *)
(* The text-level tag editor of stretch_mujoco.utils is modelled from its  *)
(* documented contract; the scene document is a list of elements.          *)
(***************************************************************************)
EXTENDS Integers, Sequences, FiniteSets, TLC

VARIABLES
    pc,                      \* position in model_generation_wizard / choose_option
    layout, style,           \* the wizard's parameters / locals of the same name
    write_to_file,           \* parameter: destination path or None
    robot_spawn_pose,        \* parameter: caller-supplied pose or None
    stdin,                   \* lines still to be read by input()
    world,                   \* what the scene library returns for this run
    config,                  \* layout_and_style_ids handed to robosuite.make
    xml,                     \* the current scene document
    i,                       \* loop index of the placement loop
    object_placements_info,  \* the placement registry
    robot_base_fixture_pose, \* pose captured by / resolved after custom_cleanups
    resolver_pose,           \* pose handed to get_absolute_path_stretch_xml
    file,                    \* the output file: number of writes and its text
    result,                  \* value returned (wizard) or outcome (choose_option)
    stages,                  \* the stages executed so far, in order
    co,                      \* arguments of a stand-alone choose_option call
    args                     \* the layout and style the caller passed

vars == <<pc, layout, style, write_to_file, robot_spawn_pose, stdin, world,
          config, xml, i, object_placements_info, robot_base_fixture_pose,
          resolver_pose, file, result, stages, co, args>>

----------------------------------------------------------------------------
(* Python values *)

PyNone == [t |-> "none"]
PyInt(n) == [t |-> "int", v |-> n]
PyStr(s) == [t |-> "str", s |-> s]

Min(a, b) == IF a < b THEN a ELSE b
Max(a, b) == IF a > b THEN a ELSE b

----------------------------------------------------------------------------
(* Bounds *)

MaxLen == 2          \* longest text typed at a prompt
MaxObjs == 2         \* longest external object list

----------------------------------------------------------------------------
(* int(s): optional surrounding blanks, optional sign, one or more digits *)

Digits == {"0", "1", "2", "5"}
Chars == Digits \cup {"-", " ", "a"}

DigitVal(c) == CASE c = "0" -> 0 [] c = "1" -> 1 [] c = "2" -> 2 [] c = "5" -> 5

RECURSIVE LStrip(_)
LStrip(s) == IF s # <<>> /\ Head(s) = " " THEN LStrip(Tail(s)) ELSE s

RECURSIVE RStrip(_)
RStrip(s) == IF s # <<>> /\ s[Len(s)] = " " THEN RStrip(SubSeq(s, 1, Len(s) - 1)) ELSE s

RECURSIVE DigitsVal(_)
DigitsVal(s) == IF s = <<>> THEN 0
                ELSE 10 * DigitsVal(SubSeq(s, 1, Len(s) - 1)) + DigitVal(s[Len(s)])

AllDigits(s) == s # <<>> /\ \A j \in 1..Len(s) : s[j] \in Digits

ParseInt(text) ==
    LET s == RStrip(LStrip(text))
        neg == s # <<>> /\ Head(s) = "-"
        body == IF neg THEN Tail(s) ELSE s
    IN  IF AllDigits(body)
        THEN [ok |-> TRUE, val |-> IF neg THEN 0 - DigitsVal(body) ELSE DigitsVal(body)]
        ELSE [ok |-> FALSE, val |-> 0]

RECURSIVE TextsUpTo(_)
TextsUpTo(n) == IF n = 0 THEN {<<>>}
                ELSE TextsUpTo(n - 1) \cup
                     {Append(s, c) : s \in {t \in TextsUpTo(n - 1) : Len(t) = n - 1}, c \in Chars}

----------------------------------------------------------------------------
(* Ordered option mappings: a sequence of (key, label) pairs *)

HasKey(options, k) == \E j \in 1..Len(options) : options[j].k = k
GetItem(options, k) == options[CHOOSE j \in 1..Len(options) : options[j].k = k].v
KeysOf(options) == {options[j].k : j \in 1..Len(options)}

Returned(v) == [raised |-> FALSE, value |-> v]
Raised == [raised |-> TRUE, value |-> PyNone]

\* lines 66-71: the except branch
FallbackChoice(options, default) ==
    IF default = PyNone THEN PyStr(GetItem(options, PyInt(0))) ELSE default

\* lines 56-74: read a line, parse, clamp, index the key list
PromptChoice(options, default, input) ==
    IF input = <<>>
    THEN FallbackChoice(options, default)                  \* input() raised EOFError
    ELSE LET p == ParseInt(Head(input))
             k == Min(Max(p.val, 0), Len(options) - 1)
         IN  IF p.ok /\ k >= 0
             THEN options[k + 1].k
             ELSE FallbackChoice(options, default)

\* lines 41-42: default = options[0] looks key 0 up in the mapping
DefaultOf(options, default) ==
    IF default # PyNone THEN Returned(default)
    ELSE IF HasKey(options, PyInt(0)) THEN Returned(PyStr(GetItem(options, PyInt(0))))
    ELSE Raised

choose_option(options, default, input) ==
    LET d == DefaultOf(options, default)
    IN  IF d.raised THEN Raised
        ELSE Returned(PromptChoice(options, d.value, input))

----------------------------------------------------------------------------
(* The scene document: the lines inserted after the <mujoco> tag and the   *)
(* elements in document order. An element has a tag, a position (id), the  *)
(* id of the element that encloses it (0: none) and its attributes.        *)

NoAttr == "<absent>"
AttrNames == {"name", "rgba", "actuator", "pos", "quat"}

Elem(id, parent, tag, name, rgba, pos, quat) ==
    [id |-> id, parent |-> parent, tag |-> tag,
     attrs |-> [a \in AttrNames |->
                  CASE a = "name" -> name [] a = "rgba" -> rgba
                    [] a = "pos" -> pos [] a = "quat" -> quat
                    [] OTHER -> NoAttr]]

\* the document without the elements whose id is in gone
Without(doc, gone) ==
    [doc EXCEPT !.elems = SelectSeq(doc.elems, LAMBDA e : e.id \notin gone)]

ElemsOf(doc) == {doc.elems[j] : j \in 1..Len(doc.elems)}

\* ids of the elements of a set and of everything nested inside them
RECURSIVE Subtree(_, _)
Subtree(doc, ids) ==
    LET more == {e.id : e \in {x \in ElemsOf(doc) : x.parent \in ids}}
    IN  IF more \subseteq ids THEN ids ELSE Subtree(doc, ids \cup more)

Named(doc, tag, name) == {e \in ElemsOf(doc) : e.tag = tag /\ e.attrs["name"] = name}

\* " ".join(map(str, v))
RECURSIVE FmtVec(_)
FmtVec(v) == IF Len(v) = 1 THEN ToString(v[1])
             ELSE ToString(Head(v)) \o " " \o FmtVec(Tail(v))

----------------------------------------------------------------------------
(* stretch_mujoco.utils: the tag editor *)

replace_xml_tag_value(doc, tag, attribute, pattern, value) ==
    LET F(e) == IF e.tag = tag /\ e.attrs[attribute] = pattern
                THEN [e EXCEPT !.attrs[attribute] = value] ELSE e
    IN  [doc EXCEPT !.elems = [j \in 1..Len(doc.elems) |-> F(doc.elems[j])]]

xml_remove_subelement(doc, subelement) ==
    Without(doc, Subtree(doc, {e.id : e \in {x \in ElemsOf(doc) : x.tag = subelement}}))

\* the pose-relevant attributes an element carries
PoseAttrib(e) == [pos |-> e.attrs["pos"], quat |-> e.attrs["quat"]]

xml_remove_tag_by_name(doc, tag, name) ==
    LET hit == Named(doc, tag, name)
    IN  IF Cardinality(hit) # 1 THEN [raised |-> TRUE, xml |-> doc, attrib |-> PyNone]
        ELSE LET e == CHOOSE x \in hit : TRUE
             IN  [raised |-> FALSE, xml |-> Without(doc, Subtree(doc, {e.id})),
                  attrib |-> PoseAttrib(e)]

xml_modify_body_pos(doc, tag, name, pos, quat) ==
    LET hit == Named(doc, tag, name)
        F(e) == IF e \in hit
                THEN [e EXCEPT !.attrs["pos"] = FmtVec(pos), !.attrs["quat"] = FmtVec(quat)]
                ELSE e
    IN  IF Cardinality(hit) # 1 THEN [raised |-> TRUE, xml |-> doc]
        ELSE [raised |-> FALSE,
              xml |-> [doc EXCEPT !.elems = [j \in 1..Len(doc.elems) |-> F(doc.elems[j])]]]

insert_line_after_mujoco_tag(doc, line) == [doc EXCEPT !.lines = <<line>> \o doc.lines]

\* the robot model resolver: a model file made for the given pose
get_absolute_path_stretch_xml(pose) == [model |-> "stretch.xml", pose |-> pose]

----------------------------------------------------------------------------
(* custom_cleanups and add_stretch_to_kitchen *)

\* lines 222-225
NeutraliseHighlights(doc) ==
    LET a == replace_xml_tag_value(doc, "geom", "rgba", "0.5 0 0 0.5", "0.5 0 0 0")
        b == replace_xml_tag_value(a, "geom", "rgba", "0.5 0 0 1", "0.5 0 0 0")
        c == replace_xml_tag_value(b, "site", "rgba", "0.5 0 0 1", "0.5 0 0 0")
    IN  replace_xml_tag_value(c, "site", "actuator", "0.3 0.4 1 0.5", "0.3 0.4 1 0")

\* a cleanup that forgets the option element
RemovedTagsNoOption == <<"actuator", "sensor">>

\* lines 227-231
RemovedTags == <<"actuator", "sensor", "option">>

RECURSIVE RemoveAll(_, _)
RemoveAll(doc, tags) ==
    IF tags = <<>> THEN doc
    ELSE RemoveAll(xml_remove_subelement(doc, Head(tags)), Tail(tags))

RemoveSubelements(doc) == RemoveAll(doc, RemovedTags)

\* line 235
RemoveRobot(doc) == xml_remove_tag_by_name(doc, "body", "robot0_base")

\* lines 215-237
custom_cleanups(doc) == RemoveRobot(RemoveSubelements(NeutraliseHighlights(doc)))

\* line 245 reads both keys of the pose
HasPoseKeys(pose) == pose # PyNone /\ pose.pos # NoAttr /\ pose.quat # NoAttr

\* an insertion that adds the directive twice
add_stretch_twice(doc, robot_pose_attrib) ==
    LET line == [tag |-> "include", file |-> get_absolute_path_stretch_xml(robot_pose_attrib)]
    IN  insert_line_after_mujoco_tag(insert_line_after_mujoco_tag(doc, line), line)

\* lines 247-253
add_stretch_to_kitchen(doc, robot_pose_attrib) ==
    insert_line_after_mujoco_tag(doc,
        [tag |-> "include", file |-> get_absolute_path_stretch_xml(robot_pose_attrib)])

----------------------------------------------------------------------------
(* The option mappings of model_generation_wizard *)

NumLayouts == 10     \* lines 100-113
NumStyles == 12      \* the keys of robocasa's STYLES, 0-11 (line 259)

layouts == [j \in 1..NumLayouts |-> [k |-> PyInt(j - 1), v |-> "Layout " \o ToString(j - 1)]]
styles == [j \in 1..NumStyles |-> [k |-> PyInt(j - 1), v |-> "Style " \o ToString(j - 1)]]

\* line 131: np.random.choice(range(10))
LayoutDraws == {PyInt(n) : n \in 0..9}
\* a draw that goes past the last style
StyleDrawsWide == {PyInt(n) : n \in 0..12}

\* line 134: np.random.choice(range(11))
StyleDraws == {PyInt(n) : n \in 0..10}

----------------------------------------------------------------------------
(* What the scene library can return: a document, the object list and the  *)
(* placement table                                                         *)

ObjNames == {"obj", "distr"}

Optional(present, e) == IF present THEN <<e>> ELSE <<>>

RobotBodies(r) ==
    CASE r = "none" -> <<>>
      [] r = "one" -> <<Elem(5, 0, "body", "robot0_base", NoAttr, "0 0 0", "1 0 0 0"),
                        Elem(6, 5, "geom", "robot0_g", "0.5 0 0 1", NoAttr, NoAttr)>>
      [] r = "moved" -> <<Elem(5, 0, "body", "robot0_base", NoAttr, "4 -2 0", "0 0 0 1"),
                          Elem(6, 5, "geom", "robot0_g", "0.5 0 0 1", NoAttr, NoAttr)>>
      [] r = "noquat" -> <<Elem(5, 0, "body", "robot0_base", NoAttr, "4 -2 0", NoAttr)>>
      [] r = "two" -> <<Elem(5, 0, "body", "robot0_base", NoAttr, "0 0 0", "1 0 0 0"),
                        Elem(7, 0, "body", "robot0_base", NoAttr, "4 -2 0", "0 0 0 1")>>

SectionElems(secs) ==
    Optional("actuator" \in secs, Elem(8, 0, "actuator", NoAttr, NoAttr, NoAttr, NoAttr))
    \o Optional("actuator" \in secs, Elem(9, 8, "motor", "robot0_m", NoAttr, NoAttr, NoAttr))
    \o Optional("sensor" \in secs, Elem(10, 0, "sensor", NoAttr, NoAttr, NoAttr, NoAttr))
    \o Optional("option" \in secs, Elem(11, 0, "option", NoAttr, NoAttr, NoAttr, NoAttr))

SiteElem(s) ==
    IF s = "actuated"
    THEN [Elem(2, 0, "site", "s0", "1 1 1 1", NoAttr, NoAttr)
            EXCEPT !.attrs["actuator"] = "0.3 0.4 1 0.5"]
    ELSE Elem(2, 0, "site", "s0", s, NoAttr, NoAttr)

MkDoc(g, s, secs, r, hasDistr) ==
    [lines |-> <<>>,
     elems |-> <<Elem(1, 0, "geom", "g0", g, NoAttr, NoAttr), SiteElem(s),
                 Elem(3, 0, "body", "obj_main", NoAttr, "0 0 0", "1 0 0 0")>>
               \o Optional(hasDistr, Elem(4, 0, "body", "distr_main", NoAttr, "0 0 0", "1 0 0 0"))
               \o RobotBodies(r) \o SectionElems(secs)]

Placements ==
    [n \in ObjNames |->
        IF n = "obj" THEN [pos |-> <<1, 2, 0>>, quat |-> <<1, 0, 0, 0>>]
        ELSE [pos |-> <<3, -1, 1>>, quat |-> <<0, 0, 1, 0>>]]

Cfg(n) == [name |-> n, cat |-> IF n = "obj" THEN "apple" ELSE "bowl"]

RECURSIVE CfgsUpTo(_)
CfgsUpTo(n) == IF n = 0 THEN {<<>>}
               ELSE CfgsUpTo(n - 1) \cup
                    {Append(q, Cfg(m)) : q \in {c \in CfgsUpTo(n - 1) : Len(c) = n - 1},
                                         m \in ObjNames}

MkWorld(doc, cfgs) == [xml |-> doc, object_cfgs |-> cfgs, object_placements |-> Placements]

AllSections == {"actuator", "sensor", "option"}

Colours == {<<"0.5 0 0 0.5", "0.5 0 0 1">>, <<"0.5 0 0 1", "0.3 0.4 1 0.5">>,
            <<"1 1 1 1", "actuated">>, <<"0.5 0 0 0", "1 1 1 1">>}

SceneWorlds ==
    {MkWorld(MkDoc(c[1], c[2], secs, r, d), cfgs) :
        c \in Colours, secs \in {{}, {"sensor"}, AllSections},
        r \in {"none", "one", "moved", "noquat", "two"}, d \in BOOLEAN,
        cfgs \in CfgsUpTo(MaxObjs)}

FewWorlds ==
    {MkWorld(MkDoc("0.5 0 0 1", "0.5 0 0 1", AllSections, "one", TRUE), cfgs) :
        cfgs \in {<<>>, <<Cfg("obj"), Cfg("distr")>>}}

CallerPose == [pos |-> "2.26 -1.43 0.0", quat |-> "0 0 0 1"]    \* line 267

----------------------------------------------------------------------------
(* The placement registry: a dict in insertion order *)

\* a registry that appends on every assignment
DictSetAppend(d, key, val) == Append(d, [key |-> key, val |-> val])

DictSet(d, key, val) ==
    IF \E j \in 1..Len(d) : d[j].key = key
    THEN [j \in 1..Len(d) |-> IF d[j].key = key THEN [key |-> key, val |-> val] ELSE d[j]]
    ELSE Append(d, [key |-> key, val |-> val])

DictKeys(d) == [j \in 1..Len(d) |-> d[j].key]

\* line 187: the object's name in the document
BodyName(cfg) == cfg.name \o "_main"

\* a placement that writes the quaternion where the position belongs
PlacedDocSwapped(doc, cfg, placements) ==
    xml_modify_body_pos(doc, "body", BodyName(cfg),
                        placements[cfg.name].quat, placements[cfg.name].pos)

\* lines 184-190
PlacedDoc(doc, cfg, placements) ==
    xml_modify_body_pos(doc, "body", BodyName(cfg),
                        placements[cfg.name].pos, placements[cfg.name].quat)

\* lines 191-195
PlacementInfo(cfg, placements) ==
    [cat |-> cfg.cat, pos |-> placements[cfg.name].pos, quat |-> placements[cfg.name].quat]

\* a resolution that ignores the caller's pose
ResolvedPoseCaptured(captured, supplied) == captured

\* lines 199-200
ResolvedPose(captured, supplied) == IF supplied # PyNone THEN supplied ELSE captured

\* a write that does not look at the destination
ShouldWriteAlways(path) == TRUE

\* line 207
ShouldWrite(path) == path # PyNone

----------------------------------------------------------------------------
(* model_generation_wizard *)

NoFile == [writes |-> 0, text |-> PyNone]

Start(lay, sty, path, pose, lines, w) ==
    /\ pc = "select_layout"
    /\ layout = lay /\ style = sty /\ write_to_file = path /\ robot_spawn_pose = pose
    /\ stdin = lines /\ world = w
    /\ config = PyNone /\ xml = PyNone /\ i = 0 /\ object_placements_info = <<>>
    /\ robot_base_fixture_pose = PyNone /\ resolver_pose = PyNone
    /\ file = NoFile /\ result = PyNone /\ stages = <<>> /\ co = PyNone
    /\ args = [layout |-> lay, style |-> sty]

Goto(next, stage) == pc' = next /\ stages' = Append(stages, stage)

Fail == pc' = "error" /\ UNCHANGED stages

\* lines 118-123
SelectLayout ==
    /\ pc = "select_layout"
    /\ IF layout = PyNone
       THEN /\ layout' = choose_option(layouts, PyInt(-1), stdin).value
            /\ stdin' = IF stdin = <<>> THEN stdin ELSE Tail(stdin)
       ELSE UNCHANGED <<layout, stdin>>
    /\ Goto("select_style", "select_layout")
    /\ UNCHANGED <<style, write_to_file, robot_spawn_pose, world, config, xml, i,
                   object_placements_info, robot_base_fixture_pose, resolver_pose,
                   file, result, co, args>>

\* lines 125-128
SelectStyle ==
    /\ pc = "select_style"
    /\ IF style = PyNone
       THEN /\ style' = choose_option(styles, PyInt(-1), stdin).value
            /\ stdin' = IF stdin = <<>> THEN stdin ELSE Tail(stdin)
       ELSE UNCHANGED <<style, stdin>>
    /\ Goto("random_layout", "select_style")
    /\ UNCHANGED <<layout, write_to_file, robot_spawn_pose, world, config, xml, i,
                   object_placements_info, robot_base_fixture_pose, resolver_pose,
                   file, result, co, args>>

\* lines 130-132
RandomizeLayout ==
    /\ pc = "random_layout"
    /\ IF layout = PyInt(-1)
       THEN /\ layout' \in LayoutDraws
            /\ Goto("random_style", "randomize_layout")
       ELSE /\ pc' = "random_style"
            /\ UNCHANGED <<layout, stages>>
    /\ UNCHANGED <<style, write_to_file, robot_spawn_pose, stdin, world, config, xml, i,
                   object_placements_info, robot_base_fixture_pose, resolver_pose,
                   file, result, co, args>>

\* lines 133-135
RandomizeStyle ==
    /\ pc = "random_style"
    /\ IF style = PyInt(-1)
       THEN /\ style' \in StyleDraws
            /\ Goto("make", "randomize_style")
       ELSE /\ pc' = "make"
            /\ UNCHANGED <<style, stages>>
    /\ UNCHANGED <<layout, write_to_file, robot_spawn_pose, stdin, world, config, xml, i,
                   object_placements_info, robot_base_fixture_pose, resolver_pose,
                   file, result, co, args>>

\* lines 139-171: robosuite.make may raise; layouts[layout] and styles[style]
\* raise KeyError for a value that is not a key
InstantiateEnvironment ==
    /\ pc = "make"
    /\ config' = [layout_and_style_ids |-> <<layout, style>>]
    /\ \/ /\ Fail
          /\ UNCHANGED xml
       \/ /\ HasKey(layouts, layout) /\ HasKey(styles, style)
          /\ xml' = world.xml
          /\ Goto("start_place", "instantiate")
    /\ UNCHANGED <<layout, style, write_to_file, robot_spawn_pose, stdin, world, i,
                   object_placements_info, robot_base_fixture_pose, resolver_pose,
                   file, result, co, args>>

\* lines 174-176
StartPlacements ==
    /\ pc = "start_place"
    /\ object_placements_info' = <<>>
    /\ i' = 0
    /\ Goto("place", "accumulate")
    /\ UNCHANGED <<layout, style, write_to_file, robot_spawn_pose, stdin, world, config,
                   xml, robot_base_fixture_pose, resolver_pose, file, result, co, args>>

\* lines 176-195: one iteration of the loop
PlaceObject ==
    /\ pc = "place"
    /\ i < Len(world.object_cfgs)
    /\ LET cfg == world.object_cfgs[i + 1]
           r == PlacedDoc(xml, cfg, world.object_placements)
       IN  IF r.raised
           THEN /\ Fail
                /\ UNCHANGED <<xml, object_placements_info, i>>
           ELSE /\ xml' = r.xml
                /\ object_placements_info' =
                       DictSet(object_placements_info, BodyName(cfg),
                               PlacementInfo(cfg, world.object_placements))
                /\ i' = i + 1
                /\ UNCHANGED <<pc, stages>>
    /\ UNCHANGED <<layout, style, write_to_file, robot_spawn_pose, stdin, world, config,
                   robot_base_fixture_pose, resolver_pose, file, result, co, args>>

\* lines 197, 222-225: the loop is over, custom_cleanups starts
Neutralise ==
    /\ pc = "place"
    /\ i = Len(world.object_cfgs)
    /\ xml' = NeutraliseHighlights(xml)
    /\ Goto("remove_sub", "neutralise")
    /\ UNCHANGED <<layout, style, write_to_file, robot_spawn_pose, stdin, world, config, i,
                   object_placements_info, robot_base_fixture_pose, resolver_pose,
                   file, result, co, args>>

\* lines 227-231
RemoveSections ==
    /\ pc = "remove_sub"
    /\ xml' = RemoveSubelements(xml)
    /\ Goto("remove_robot", "remove_subelements")
    /\ UNCHANGED <<layout, style, write_to_file, robot_spawn_pose, stdin, world, config, i,
                   object_placements_info, robot_base_fixture_pose, resolver_pose,
                   file, result, co, args>>

\* lines 235-237 and the assignment of line 197
RemoveDefaultRobot ==
    /\ pc = "remove_robot"
    /\ LET r == RemoveRobot(xml)
       IN  IF r.raised
           THEN /\ Fail
                /\ UNCHANGED <<xml, robot_base_fixture_pose>>
           ELSE /\ xml' = r.xml
                /\ robot_base_fixture_pose' = r.attrib
                /\ Goto("resolve", "remove_robot")
    /\ UNCHANGED <<layout, style, write_to_file, robot_spawn_pose, stdin, world, config, i,
                   object_placements_info, resolver_pose, file, result, co, args>>

\* lines 199-200
ResolveSpawnPose ==
    /\ pc = "resolve"
    /\ robot_base_fixture_pose' = ResolvedPose(robot_base_fixture_pose, robot_spawn_pose)
    /\ Goto("add_robot", "resolve")
    /\ UNCHANGED <<layout, style, write_to_file, robot_spawn_pose, stdin, world, config,
                   xml, i, object_placements_info, resolver_pose, file, result, co, args>>

\* lines 204, 244-253
AddRobot ==
    /\ pc = "add_robot"
    /\ IF HasPoseKeys(robot_base_fixture_pose)
       THEN /\ resolver_pose' = robot_base_fixture_pose
            /\ xml' = add_stretch_to_kitchen(xml, robot_base_fixture_pose)
            /\ Goto("load", "add_robot")
       ELSE /\ Fail
            /\ UNCHANGED <<xml, resolver_pose>>
    /\ UNCHANGED <<layout, style, write_to_file, robot_spawn_pose, stdin, world, config, i,
                   object_placements_info, robot_base_fixture_pose, file, result, co, args>>

\* line 205: the loader may reject the document
LoadModel ==
    /\ pc = "load"
    /\ \/ Fail
       \/ Goto("persist", "load")
    /\ UNCHANGED <<layout, style, write_to_file, robot_spawn_pose, stdin, world, config,
                   xml, i, object_placements_info, robot_base_fixture_pose, resolver_pose,
                   file, result, co, args>>

\* lines 207-210: open() may raise, write() may raise after the file was opened
Persist ==
    /\ pc = "persist"
    /\ IF ShouldWrite(write_to_file)
       THEN \/ /\ file' = [writes |-> file.writes + 1, text |-> xml]
               /\ Goto("return", "persist")
            \/ /\ Fail
               /\ UNCHANGED file
            \/ /\ Fail
               /\ file' = [writes |-> file.writes + 1, text |-> PyStr("")]
       ELSE /\ pc' = "return"
            /\ UNCHANGED <<file, stages>>
    /\ UNCHANGED <<layout, style, write_to_file, robot_spawn_pose, stdin, world, config,
                   xml, i, object_placements_info, robot_base_fixture_pose, resolver_pose,
                   result, co, args>>

\* line 212
Return ==
    /\ pc = "return"
    /\ result' = [xml |-> xml, object_placements_info |-> object_placements_info]
    /\ Goto("done", "done")
    /\ UNCHANGED <<layout, style, write_to_file, robot_spawn_pose, stdin, world, config,
                   xml, i, object_placements_info, robot_base_fixture_pose, resolver_pose,
                   file>>
    /\ UNCHANGED <<co, args>>

Next ==
    \/ SelectLayout \/ SelectStyle \/ RandomizeLayout \/ RandomizeStyle
    \/ InstantiateEnvironment \/ StartPlacements \/ PlaceObject
    \/ Neutralise \/ RemoveSections \/ RemoveDefaultRobot
    \/ ResolveSpawnPose \/ AddRobot \/ LoadModel \/ Persist \/ Return

----------------------------------------------------------------------------
(* Specifications *)

Some(S) == {PyInt(n) : n \in S}

\* lines typed at the prompts of a wizard run
PromptTexts == {<<"2">>, <<"5">>, <<"1", "2">>, <<"-", "1">>, <<"a">>, <<>>}
PromptLines == {<<>>} \cup {<<t>> : t \in PromptTexts}
                      \cup {<<t, u>> : t \in PromptTexts, u \in PromptTexts}

\* every kind of call, a few scenes
Init ==
    \E lay \in {PyNone} \cup Some({-2, -1, 0, 9, 10}),
       sty \in {PyNone} \cup Some({-1, 0, 11, 12}),
       dest \in {<<PyNone, PyNone>>, <<PyStr("out.xml"), CallerPose>>},
       lines \in PromptLines, w \in FewWorlds :
        Start(lay, sty, dest[1], dest[2], lines, w)

Spec == Init /\ [][Next]_vars

\* every kind of scene, a few calls
InitScene ==
    \E call \in {<<PyNone, PyInt(-1), <<<<"2">>>> >>, <<PyInt(-1), PyNone, <<<<"5">>>> >>},
       path \in {PyNone, PyStr("out.xml")}, pose \in {PyNone, CallerPose},
       w \in SceneWorlds :
        Start(call[1], call[2], path, pose, call[3], w)

SpecScene == InitScene /\ [][Next]_vars

----------------------------------------------------------------------------
(* choose_option on its own *)

Labelled(keys) == [j \in 1..Len(keys) |-> [k |-> PyInt(keys[j]), v |-> "Option " \o ToString(j)]]

OptionMaps == {Labelled(<<0, 1, 2>>), Labelled(<<1, 2>>), Labelled(<<5>>),
               Labelled(<<3, 0>>), layouts}

InitChoose ==
    /\ pc = "choose_call"
    /\ co \in [options : OptionMaps, default : {PyNone, PyInt(-1), PyInt(1)}]
    /\ stdin \in {<<>>} \cup {<<t>> : t \in TextsUpTo(MaxLen)}
    /\ layout = PyNone /\ style = PyNone /\ write_to_file = PyNone
    /\ robot_spawn_pose = PyNone /\ world = PyNone
    /\ config = PyNone /\ xml = PyNone /\ i = 0 /\ object_placements_info = <<>>
    /\ robot_base_fixture_pose = PyNone /\ resolver_pose = PyNone
    /\ file = NoFile /\ result = PyNone /\ stages = <<>> /\ args = PyNone

\* lines 32-74
ChooseOption ==
    /\ pc = "choose_call"
    /\ result' = choose_option(co.options, co.default, stdin)
    /\ pc' = "choose_done"
    /\ UNCHANGED <<layout, style, write_to_file, robot_spawn_pose, stdin, world, config,
                   xml, i, object_placements_info, robot_base_fixture_pose, resolver_pose,
                   file, stages, co, args>>

NextChoose == ChooseOption

SpecChoose == InitChoose /\ [][NextChoose]_vars

----------------------------------------------------------------------------
(* Properties *)

AfterCleanup == {"resolve", "add_robot", "load", "persist", "return", "done"}

HasElem(doc, tag, attribute, value) ==
    \E e \in ElemsOf(doc) : e.tag = tag /\ e.attrs[attribute] = value

\* C1: after custom_cleanups no geom has colour "0.5 0 0 0.5" or "0.5 0 0 1"
\* and no site has colour "0.5 0 0 1" or "0.3 0.4 1 0.5".
C1_NoHighlightColours ==
    pc \in AfterCleanup =>
        /\ ~HasElem(xml, "geom", "rgba", "0.5 0 0 0.5")
        /\ ~HasElem(xml, "geom", "rgba", "0.5 0 0 1")
        /\ ~HasElem(xml, "site", "rgba", "0.5 0 0 1")
        /\ ~HasElem(xml, "site", "rgba", "0.3 0.4 1 0.5")

\* C2: once custom_cleanups has returned, and up to Done, the document has no
\* actuator, sensor or option element and no body named robot0_base.
C2_NoStrippedElements ==
    pc \in AfterCleanup =>
        /\ \A e \in ElemsOf(xml) : e.tag \notin {"actuator", "sensor", "option"}
        /\ Named(xml, "body", "robot0_base") = {}

C2_Witness ==
    /\ pc = "done"
    /\ \A t \in AllSections : \E e \in ElemsOf(world.xml) : e.tag = t
    /\ Named(world.xml, "body", "robot0_base") # {}
    /\ Len(xml.lines) = 1

RECURSIVE Dedup(_)
Dedup(q) == IF q = <<>> THEN <<>>
            ELSE LET front == SubSeq(q, 1, Len(q) - 1)
                     d == Dedup(front)
                 IN  IF \E j \in 1..Len(front) : front[j] = q[Len(q)] THEN d
                     ELSE Append(d, q[Len(q)])

BodyNames(cfgs, n) == [j \in 1..n |-> BodyName(cfgs[j])]

InLoopOrLater == {"place", "remove_sub", "remove_robot"} \cup AfterCleanup

\* C3 as stated: the registry has exactly k entries for an object list of
\* size k, and exactly i+1 entries after object i was processed.
C3_RegistrySizeIsK ==
    /\ pc = "place" => Len(object_placements_info) = i
    /\ pc = "done" => Len(result.object_placements_info) = Len(world.object_cfgs)

\* C3 amended: the registry has one entry per distinct object name, in the
\* order of first occurrence in the object list; it has exactly k entries
\* when the k names are pairwise distinct.
C3_RegistryDistinctNames ==
    /\ pc \in InLoopOrLater =>
          DictKeys(object_placements_info) = Dedup(BodyNames(world.object_cfgs, i))
    /\ pc = "done" =>
          DictKeys(result.object_placements_info) =
              Dedup(BodyNames(world.object_cfgs, Len(world.object_cfgs)))

C3_Witness ==
    /\ pc = "done"
    /\ Len(world.object_cfgs) >= 2
    /\ Len(result.object_placements_info) = Len(world.object_cfgs)

\* C4: from the first iteration of the placement loop up to Done, every key
\* of the registry names exactly one body of the document, and that body's
\* pos and quat are the registry's pos and quat.
C4_RegistryMatchesDocument ==
    pc \in InLoopOrLater =>
        \A j \in 1..Len(object_placements_info) :
            LET entry == object_placements_info[j]
                hit == Named(xml, "body", entry.key)
            IN  /\ Cardinality(hit) = 1
                /\ \A e \in hit : /\ e.attrs["pos"] = FmtVec(entry.val.pos)
                                  /\ e.attrs["quat"] = FmtVec(entry.val.quat)

C4_Witness ==
    /\ pc = "done"
    /\ Len(object_placements_info) >= 2
    /\ Len(xml.lines) = 1

RobotOf(doc) == CHOOSE e \in Named(doc, "body", "robot0_base") : TRUE

\* C5: the pose handed to the robot model resolver is the caller's
\* robot_spawn_pose when one was supplied, and otherwise the pos/quat of the
\* removed robot0_base body; the body is gone in both cases.
C5_SpawnPoseResolution ==
    resolver_pose # PyNone =>
        /\ robot_spawn_pose # PyNone => resolver_pose = robot_spawn_pose
        /\ robot_spawn_pose = PyNone => resolver_pose = PoseAttrib(RobotOf(world.xml))
        /\ xml.lines = <<[tag |-> "include",
                          file |-> get_absolute_path_stretch_xml(resolver_pose)]>>
        /\ Named(xml, "body", "robot0_base") = {}

C5_Witness ==
    /\ pc = "done"
    /\ robot_spawn_pose = CallerPose
    /\ resolver_pose = CallerPose
    /\ PoseAttrib(RobotOf(world.xml)) # CallerPose

Sentinel == PyInt(-1)

ValidOrSentinel(options, v) == v \in KeysOf(options) \cup {Sentinel}

\* C6 as stated: whatever the caller passes and whatever is typed, the
\* selection step resolves layout and style to a key of the mapping or to -1,
\* and the values used to instantiate the environment are keys.
C6_ChoiceAlwaysValid ==
    /\ pc = "random_layout" =>
          ValidOrSentinel(layouts, layout) /\ ValidOrSentinel(styles, style)
    /\ config # PyNone =>
          /\ config.layout_and_style_ids[1] \in KeysOf(layouts)
          /\ config.layout_and_style_ids[2] \in KeysOf(styles)

\* C6 amended: a value chosen at the prompt is a key of the mapping or -1; a
\* value passed by the caller is used unchanged, without validation; the
\* values used to instantiate the environment are keys of their mappings
\* whenever the caller passed nothing, -1 or a key.
C6_ChoiceValidUnlessCallerInvalid ==
    /\ pc = "random_layout" =>
          /\ args.layout = PyNone => ValidOrSentinel(layouts, layout)
          /\ args.layout # PyNone => layout = args.layout
          /\ args.style = PyNone => ValidOrSentinel(styles, style)
          /\ args.style # PyNone => style = args.style
    /\ config # PyNone =>
          /\ args.layout \in {PyNone} \cup KeysOf(layouts) \cup {Sentinel} =>
                 config.layout_and_style_ids[1] \in KeysOf(layouts)
          /\ args.style \in {PyNone} \cup KeysOf(styles) \cup {Sentinel} =>
                 config.layout_and_style_ids[2] \in KeysOf(styles)

C6_Witness ==
    /\ config # PyNone
    /\ args.layout = PyNone /\ args.style = PyNone
    /\ "randomize_style" \in {stages[j] : j \in 1..Len(stages)}
    /\ "randomize_layout" \notin {stages[j] : j \in 1..Len(stages)}

StageSet == {stages[j] : j \in 1..Len(stages)}

\* C7: Randomizing is taken for layout (style) exactly when the resolved value
\* is -1; every key of the mapping is a possible draw and every draw is a key
\* of the mapping; the value passed to environment instantiation is never -1.
C7_SentinelResolution ==
    /\ pc = "random_layout" /\ layout = Sentinel =>
          \A k \in KeysOf(layouts) : ENABLED (RandomizeLayout /\ layout' = k)
    /\ pc = "random_style" /\ style = Sentinel =>
          \A k \in KeysOf(styles) : ENABLED (RandomizeStyle /\ style' = k)
    /\ pc = "random_layout" /\ layout # Sentinel =>
          ENABLED (RandomizeLayout /\ UNCHANGED <<layout, stages>>)
    /\ pc = "random_style" /\ style # Sentinel =>
          ENABLED (RandomizeStyle /\ UNCHANGED <<style, stages>>)
    /\ "randomize_layout" \in StageSet /\ pc # "random_layout" => layout \in KeysOf(layouts)
    /\ "randomize_style" \in StageSet => style \in KeysOf(styles)
    /\ config # PyNone => /\ config.layout_and_style_ids[1] # Sentinel
                          /\ config.layout_and_style_ids[2] # Sentinel

\* C8: choose_option never raises; a text that parses as the integer n gives
\* the key at position min(max(n, 0), count-1); any other text, or a failed
\* read, gives the default, or the first option when no default was given;
\* without a default the result is a key of the mapping.
C8_ChooseOptionContract ==
    pc = "choose_done" =>
        LET options == co.options
            parsed == IF stdin = <<>> THEN [ok |-> FALSE, val |-> 0]
                      ELSE ParseInt(Head(stdin))
        IN  /\ ~result.raised
            /\ parsed.ok =>
                  result.value = options[Min(Max(parsed.val, 0), Len(options) - 1) + 1].k
            /\ ~parsed.ok =>
                  result.value = IF co.default # PyNone THEN co.default ELSE options[1].k
            /\ co.default = PyNone => result.value \in KeysOf(options)

RequiredBeforeWrite == {"instantiate", "accumulate", "neutralise", "remove_subelements",
                        "remove_robot", "resolve", "add_robot", "load"}

\* C9: the output file is written at most once, only when a destination was
\* given and only after instantiation, placement, cleanup, robot insertion
\* and loading have all succeeded; the text written is the returned document.
C9_WriteOnlyAfterSuccess ==
    /\ file.writes <= 1
    /\ file # NoFile =>
          /\ write_to_file # PyNone
          /\ RequiredBeforeWrite \subseteq StageSet
          /\ pc \in {"return", "done", "error"}
    /\ pc = "done" /\ file # NoFile => file.text = result.xml
    /\ pc = "done" /\ write_to_file # PyNone => file.writes = 1

C9_Witness ==
    /\ pc = "done"
    /\ file.writes = 1
    /\ file.text = result.xml
    /\ Len(result.xml.lines) = 1

StageOrder == <<"select_layout", "select_style", "randomize_layout", "randomize_style",
                "instantiate", "accumulate", "neutralise", "remove_subelements",
                "remove_robot", "resolve", "add_robot", "load", "persist", "done">>

OptionalStages == {"randomize_layout", "randomize_style", "persist"}

Rank(stage) == CHOOSE r \in 1..Len(StageOrder) : StageOrder[r] = stage

Includes(doc) == SelectSeq(doc.lines, LAMBDA l : l.tag = "include")

\* C10: the stages run at most once each and in the fixed order; a run that
\* reaches Done has run every stage that is not optional; the document has one
\* inclusion directive once the robot was added and none before, and no edit
\* that removes elements runs after it.
C10_StageOrder ==
    /\ \A a, b \in 1..Len(stages) : a < b => Rank(stages[a]) < Rank(stages[b])
    /\ \A a \in 1..Len(stages) : stages[a] \in {StageOrder[r] : r \in 1..Len(StageOrder)}
    /\ pc = "done" => {StageOrder[r] : r \in 1..Len(StageOrder)} \ OptionalStages \subseteq StageSet
    /\ xml # PyNone =>
          Len(Includes(xml)) = IF "add_robot" \in StageSet THEN 1 ELSE 0

C10_Witness ==
    /\ pc = "done"
    /\ stages = StageOrder
    /\ Len(Includes(xml)) = 1

====
